---- MODULE Spec2Model ----
(***************************************************************************)
(* A model of spotify2notion: the sync script (spotify_to_notion_sync.py)  *)
(* and the cover-backfill scripts (add_cover_image_to_notion.py and its    *)
(* copy script.py).                                                        *)
(*                                                                         *)
(* Representation of Python / JSON values:                                 *)
(*   - a URL string is the sequence of its "/"-separated segments, so that *)
(*     str.split("/") is the identity on the representation and the        *)
(*     f-string of the canonical URL builds a five-segment sequence;       *)
(*   - the empty string is <<"">>, Python None in a string position is the *)
(*     empty sequence (no string splits to it), both are falsy;            *)
(*   - a dict is a record whose DOMAIN is its key set, so that a missing   *)
(*     key (KeyError) and a null value (TypeError) are different things;   *)
(*   - a call that may raise returns [exc, val]: exc = "" means it         *)
(*     returned val, any other exc is the exception's name.                *)
(***************************************************************************)
EXTENDS Integers, Sequences, FiniteSets, TLC

VARIABLES
    pc,                  \* position of the running function / script
    liked_songs,         \* the liked-track list handed to the reconciler
    notion_items,        \* the rows handed to the reconciler / fetched by main
    notion_spotify_urls, \* check_songs_by_spotify_url: the set of row URLs
    notion_url_to_page,  \* check_songs_by_spotify_url: URL -> page reference
    results,             \* check_songs_by_spotify_url: the two partitions
    pos,                 \* index of the next element of the loop in progress
    variant,             \* which fetch_notion_pages runs: "sync" or "cover"
    fetch,               \* locals of fetch_notion_pages
    served,              \* the listing responses served so far, in order
    queries,             \* the start_cursor carried by each query call
    notion_db,           \* the rows the Notion database holds
    run,                 \* which run of the sync flow is in progress
    calls,               \* the HTTP calls issued so far, in order
    success_count,       \* main (sync): the counter of successful creates
    spotify_token,       \* main (cover): the bearer token, or NoToken
    items_without_cover, \* main (cover): the rows to patch
    outcome,             \* per-element outcomes of the loop in progress
    report               \* main (sync): the final counts printed

vars == <<pc, liked_songs, notion_items, notion_spotify_urls,
          notion_url_to_page, results, pos, variant, fetch, served, queries,
          notion_db, run, calls, success_count, spotify_token,
          items_without_cover, outcome, report>>

reconVars == <<notion_spotify_urls, notion_url_to_page, results>>
fetchVars == <<variant, fetch, served, queries>>
flowVars  == <<notion_db, run, calls, success_count, spotify_token,
               items_without_cover, outcome, report>>

----------------------------------------------------------------------------
(* Bounds of the model *)

MaxLiked == 2       \* longest liked-track list
MaxRows == 2        \* longest Notion row list handed to the reconciler
MaxImages == 2      \* most album-art images of a track

----------------------------------------------------------------------------
(* Values *)

None == <<>>
Null == [null |-> TRUE]
EmptyStr == <<"">>
Truthy(s) == s # None /\ s # EmptyStr

Ret(v) == [exc |-> "", val |-> v]
Raise(e) == [exc |-> e, val |-> None]

Last(s) == s[Len(s)]

NoToken == "None"   \* get_spotify_token returned None
NoReport == [added |-> -1, failed |-> -1]

RECURSIVE SeqsUpTo(_, _)
SeqsUpTo(S, n) ==
    IF n = 0 THEN {<<>>}
    ELSE LET shorter == SeqsUpTo(S, n - 1) IN
         shorter \cup {Append(s, x) : s \in {t \in shorter : Len(t) = n - 1}, x \in S}

TrackIds == {"abc", "xyz"}

\* spotify_to_notion_sync.py line 82: f"https://open.spotify.com/track/{track_id}"
CanonicalUrl(track_id) == <<"https:", "", "open.spotify.com", "track", track_id>>

\* The album-art images of a track, largest first: n of them.
ImagesOf(n) == [k \in 1..n |-> [url |-> <<"https:", "", "i.scdn.co", "image", ToString(k)>>]]

\* An item of sp.current_user_saved_tracks: song["track"] with its album.
Song(id, n) ==
    [track |-> [id |-> id, name |-> id,
                album |-> [name |-> "Album", images |-> ImagesOf(n)]]]

\* Shapes of a row's URL property; a row may also have none.
UrlProps ==
    {[type |-> "url", url |-> CanonicalUrl(id)] : id \in TrackIds}
    \cup {[type |-> "url", url |-> None],
          [type |-> "url", url |-> EmptyStr],
          [type |-> "url", url |-> CanonicalUrl("abc") \o <<"">>],
          [type |-> "rich_text", rich_text |-> <<>>],
          Null}

\* Shapes of a row's Title property; a row may also have none.
TitleProps ==
    {[title |-> <<[text |-> [content |-> "Song"]]>>],
     [title |-> <<>>],
     [title |-> <<[type |-> "mention"]>>],
     [title |-> <<[text |-> Null]>>],
     Null}

GoodTitle == [title |-> <<[text |-> [content |-> "Song"]]>>]

\* A row of the database: page id, cover (Null when there is none), properties.
Row(id, cover, props) == [id |-> id, cover |-> cover, properties |-> props]

SomeCover == [type |-> "external"]

----------------------------------------------------------------------------
(* spotify_to_notion_sync.py: the reconciler *)

\* get_page_title, lines 103-110: KeyError and IndexError are caught,
\* a TypeError (subscripting None) is not.
get_page_title(item) ==
    LET props == item.properties IN
    IF "Title" \notin DOMAIN props THEN Ret("No Title")
    ELSE IF props.Title = Null THEN Raise("TypeError")
    ELSE IF "title" \notin DOMAIN props.Title THEN Ret("No Title")
    ELSE IF Len(props.Title.title) = 0 THEN Ret("No Title")
    ELSE LET seg == props.Title.title[1] IN
         IF "text" \notin DOMAIN seg THEN Ret("No Title")
         ELSE IF seg.text = Null THEN Raise("TypeError")
         ELSE IF "content" \notin DOMAIN seg.text THEN Ret("No Title")
         ELSE Ret(seg.text.content)

\* item.get("url", ""), line 67
NotionUrl(item) == IF "url" \in DOMAIN item THEN item.url ELSE ""

\* One iteration of the loop of lines 58-71 on the index idx = [urls, pages].
\* Line 64 adds the URL to the set before line 65 builds the page reference;
\* an exception raised while building it is caught at line 70.
IndexItem(idx, item) ==
    LET props == item.properties IN
    IF "URL" \notin DOMAIN props THEN idx
    ELSE LET p == props.URL IN
         IF p = Null THEN idx
         ELSE IF "type" \notin DOMAIN p THEN idx
         ELSE IF p.type # "url" THEN idx
         ELSE IF "url" \notin DOMAIN p THEN idx
         ELSE IF ~Truthy(p.url) THEN idx
         ELSE LET title == get_page_title(item) IN
              IF title.exc # ""
              THEN [idx EXCEPT !.urls = @ \cup {p.url}]
              ELSE [urls |-> idx.urls \cup {p.url},
                    pages |-> (p.url :> [id |-> item.id,
                                         notion_url |-> NotionUrl(item),
                                         title |-> title.val]) @@ idx.pages]

EmptyIndex == [urls |-> {}, pages |-> <<>>]

\* lines 78-90
SongInfo(song) ==
    [name |-> song.track.name, id |-> song.track.id,
     spotify_url |-> CanonicalUrl(song.track.id), spotify_data |-> song]

\* One iteration of the loop of lines 77-98: the partitions after it, or the
\* KeyError of notion_url_to_page[spotify_url] at line 93.
ClassifySong(idx, res, song) ==
    LET info == SongInfo(song) IN
    IF info.spotify_url \in idx.urls
    THEN IF info.spotify_url \notin DOMAIN idx.pages
         THEN Raise("KeyError")
         ELSE Ret([res EXCEPT !.registered =
                      Append(@, [name |-> info.name, id |-> info.id,
                                 spotify_url |-> info.spotify_url,
                                 spotify_data |-> info.spotify_data,
                                 notion_page |-> idx.pages[info.spotify_url]])])
    ELSE Ret([res EXCEPT !.not_registered = Append(@, info)])

EmptyResults == [registered |-> <<>>, not_registered |-> <<>>]

\* check_songs_by_spotify_url, lines 51-100, as one call: the index built over
\* all rows, then the songs classified in order until one raises.
RECURSIVE BuildIndex(_, _)
BuildIndex(idx, items) ==
    IF items = <<>> THEN idx
    ELSE BuildIndex(IndexItem(idx, Head(items)), Tail(items))

RECURSIVE ClassifyAll(_, _, _)
ClassifyAll(idx, res, songs) ==
    IF songs = <<>> THEN Ret(res)
    ELSE LET r == ClassifySong(idx, res, Head(songs)) IN
         IF r.exc # "" THEN r ELSE ClassifyAll(idx, r.val, Tail(songs))

check_songs_by_spotify_url(songs, items) ==
    ClassifyAll(BuildIndex(EmptyIndex, items), EmptyResults, songs)

\* The rows handed to the reconciler: any shapes, page ids by position.
ReconRowProps ==
    {[URL |-> [type |-> "url", url |-> CanonicalUrl("abc")], Title |-> t] :
        t \in TitleProps}
    \cup {[URL |-> [type |-> "url", url |-> CanonicalUrl("abc")]]}
    \cup {[URL |-> u, Title |-> GoodTitle] : u \in UrlProps}
    \cup {[Title |-> GoodTitle]}

ReconSongs == {Song(id, 1) : id \in TrackIds}

RowsOf(propsSeq) == [k \in 1..Len(propsSeq) |-> Row(k, Null, propsSeq[k])]

Idle ==
    /\ variant = "none"
    /\ fetch = <<>>
    /\ served = <<>>
    /\ queries = <<>>
    /\ notion_db = <<>>
    /\ run = 0
    /\ calls = <<>>
    /\ success_count = 0
    /\ spotify_token = NoToken
    /\ items_without_cover = <<>>
    /\ outcome = <<>>
    /\ report = NoReport

InitReconcile ==
    /\ pc = "index"
    /\ liked_songs \in SeqsUpTo(ReconSongs, MaxLiked)
    /\ \E propsSeq \in SeqsUpTo(ReconRowProps, MaxRows) :
           notion_items = RowsOf(propsSeq)
    /\ notion_spotify_urls = {}
    /\ notion_url_to_page = <<>>
    /\ results = EmptyResults
    /\ pos = 1
    /\ Idle

\* lines 58-71, one row
IndexRow ==
    /\ pc = "index"
    /\ pos <= Len(notion_items)
    /\ LET idx == IndexItem([urls |-> notion_spotify_urls,
                             pages |-> notion_url_to_page], notion_items[pos]) IN
           /\ notion_spotify_urls' = idx.urls
           /\ notion_url_to_page' = idx.pages
    /\ pos' = pos + 1
    /\ UNCHANGED <<pc, liked_songs, notion_items, results, fetchVars, flowVars>>

\* lines 73-75
StartClassify ==
    /\ pc = "index"
    /\ pos > Len(notion_items)
    /\ pc' = "classify"
    /\ pos' = 1
    /\ results' = EmptyResults
    /\ UNCHANGED <<liked_songs, notion_items, notion_spotify_urls,
                   notion_url_to_page, fetchVars, flowVars>>

\* lines 77-98, one song
ClassifyLiked ==
    /\ pc = "classify"
    /\ pos <= Len(liked_songs)
    /\ LET r == ClassifySong([urls |-> notion_spotify_urls,
                              pages |-> notion_url_to_page],
                             results, liked_songs[pos]) IN
           IF r.exc # ""
           THEN pc' = "raised" /\ UNCHANGED <<results, pos>>
           ELSE results' = r.val /\ pos' = pos + 1 /\ pc' = pc
    /\ UNCHANGED <<liked_songs, notion_items, notion_spotify_urls,
                   notion_url_to_page, fetchVars, flowVars>>

\* line 100
ReturnResults ==
    /\ pc = "classify"
    /\ pos > Len(liked_songs)
    /\ pc' = "returned"
    /\ UNCHANGED <<liked_songs, notion_items, reconVars, pos, fetchVars, flowVars>>

NextReconcile == IndexRow \/ StartClassify \/ ClassifyLiked \/ ReturnResults

SpecReconcile == InitReconcile /\ [][NextReconcile]_vars

ReconcileEnded == pc \in {"returned", "raised"}

\* Some row's URL property has the value u.
SomeRowHasUrl(u) ==
    \E k \in 1..Len(notion_items) :
        LET props == notion_items[k].properties IN
        /\ "URL" \in DOMAIN props
        /\ props.URL # Null
        /\ "url" \in DOMAIN props.URL
        /\ props.URL.url = u

UrlsIn(part) == {part[k].spotify_url : k \in 1..Len(part)}

\* C1: when check_songs_by_spotify_url is called, it returns, and a liked
\* track with canonical URL U is in registered if and only if some row's URL
\* property equals U, and is in not_registered otherwise.
C1_ReconciliationCorrect ==
    ReconcileEnded =>
        /\ pc = "returned"
        /\ \A k \in 1..Len(liked_songs) :
               LET u == CanonicalUrl(liked_songs[k].track.id) IN
               /\ (u \in UrlsIn(results.registered)) <=> SomeRowHasUrl(u)
               /\ (u \in UrlsIn(results.not_registered)) <=> ~SomeRowHasUrl(u)

\* The songs of a partition, in order.
SongsIn(part) == [k \in 1..Len(part) |-> part[k].spotify_data]

RECURSIVE SelectSongs(_, _)
SelectSongs(songs, urls) ==
    IF songs = <<>> THEN <<>>
    ELSE IF CanonicalUrl(Head(songs).track.id) \in urls
         THEN <<Head(songs)>> \o SelectSongs(Tail(songs), urls)
         ELSE SelectSongs(Tail(songs), urls)

\* C7: every call of check_songs_by_spotify_url returns, with
\* len(registered) + len(not_registered) = len(L), each partition a
\* subsequence of L in input order, and no URL in both partitions.
C7_ReconciliationTotal ==
    ReconcileEnded =>
        /\ pc = "returned"
        /\ Len(results.registered) + Len(results.not_registered) = Len(liked_songs)
        /\ UrlsIn(results.registered) \cap UrlsIn(results.not_registered) = {}
        /\ SongsIn(results.registered) =
               SelectSongs(liked_songs, UrlsIn(results.registered))
        /\ SongsIn(results.not_registered) =
               SelectSongs(liked_songs, UrlsIn(results.not_registered))

\* What holds of the calls that do return.
ReturnedPartitionCorrect ==
    pc = "returned" =>
        /\ Len(results.registered) + Len(results.not_registered) = Len(liked_songs)
        /\ \A k \in 1..Len(liked_songs) :
               LET u == CanonicalUrl(liked_songs[k].track.id) IN
               (u \in UrlsIn(results.registered)) <=> SomeRowHasUrl(u)

----------------------------------------------------------------------------
(* fetch_notion_pages: spotify_to_notion_sync.py lines 113-142 ("sync"),   *)
(* add_cover_image_to_notion.py and script.py lines 21-48 ("cover")        *)

MaxPages == 3       \* most query calls of one fetch the model follows

NoCursor == ""      \* next_cursor null or absent: None, falsy

Cursors == {"c1", "c2"}

\* A listing response. A 200 body holds results and may hold has_more and
\* next_cursor; the body of an error response is Notion's error object.
ErrorBody == [object |-> "error", status |-> 401]

ErrorResponse == [status_code |-> 401, body |-> ErrorBody]

PageResults == {<<>>, <<"r1">>, <<"r2", "r3">>}

PageBodies ==
    [results : PageResults, has_more : BOOLEAN, next_cursor : Cursors \cup {NoCursor}]
    \cup [results : PageResults, next_cursor : Cursors \cup {NoCursor}]
    \cup [results : PageResults, has_more : BOOLEAN]

Responses == {[status_code |-> 200, body |-> b] : b \in PageBodies} \cup {ErrorResponse}

\* data.get("has_more", False), data.get("next_cursor")
GetHasMore(data) == IF "has_more" \in DOMAIN data THEN data.has_more ELSE FALSE
GetNextCursor(data) == IF "next_cursor" \in DOMAIN data THEN data.next_cursor ELSE NoCursor

\* The locals of fetch_notion_pages before the loop.
\* payload, a dict, is the set of its key/value pairs.
FetchStart == [all_items |-> <<>>, has_more |-> TRUE, start_cursor |-> NoCursor,
               payload |-> {}]

\* if start_cursor: payload["start_cursor"] = start_cursor
\* (payload is one dict for the whole loop: a cursor once set stays).
NoCursorPayload(f) == f.payload

QueryPayload(f) ==
    IF f.start_cursor # NoCursor
    THEN {<<"start_cursor", f.start_cursor>>}
    ELSE f.payload

\* extend all_items with the page, read has_more and next_cursor
AbsorbPage(f, payload, data) ==
    Ret([all_items |-> f.all_items \o data.results,
         has_more |-> GetHasMore(data),
         start_cursor |-> GetNextCursor(data),
         payload |-> payload])

\* One iteration of the loop on the response resp to the query. The sync script
\* tests the status and breaks (exc = "break": the loop is left, nothing is
\* raised); the cover scripts read data["results"] whatever the status.
FetchPage(v, f, resp) ==
    LET payload == QueryPayload(f) IN
    IF v = "sync" /\ resp.status_code # 200
    THEN [exc |-> "break", val |-> [f EXCEPT !.payload = payload]]
    ELSE IF "results" \notin DOMAIN resp.body
         THEN Raise("KeyError")
         ELSE AbsorbPage(f, payload, resp.body)

InitFetch ==
    /\ pc = "fetching"
    /\ variant \in {"sync", "cover"}
    /\ fetch = FetchStart
    /\ served = <<>>
    /\ queries = <<>>
    /\ liked_songs = <<>>
    /\ notion_items = <<>>
    /\ notion_spotify_urls = {}
    /\ notion_url_to_page = <<>>
    /\ results = EmptyResults
    /\ pos = 1
    /\ notion_db = <<>>
    /\ run = 0
    /\ calls = <<>>
    /\ success_count = 0
    /\ spotify_token = NoToken
    /\ items_without_cover = <<>>
    /\ outcome = <<>>
    /\ report = NoReport

\* One query call and the handling of its response; the function returns
\* all_items when the loop ends.
QueryPage ==
    /\ pc = "fetching"
    /\ Len(served) < MaxPages
    /\ \E resp \in Responses :
        LET r == FetchPage(variant, fetch, resp) IN
        /\ served' = Append(served, resp)
        /\ queries' = Append(queries, QueryPayload(fetch))
        /\ IF r.exc \notin {"", "break"}
           THEN pc' = "raised" /\ fetch' = fetch
           ELSE /\ fetch' = r.val
                /\ pc' = IF r.exc = "" /\ r.val.has_more THEN "fetching" ELSE "returned"
    /\ UNCHANGED <<variant, liked_songs, notion_items, reconVars, pos, flowVars>>

\* The caller takes the returned list.
TakeItems ==
    /\ pc = "returned"
    /\ notion_items # fetch.all_items
    /\ notion_items' = fetch.all_items
    /\ UNCHANGED <<pc, liked_songs, reconVars, pos, fetchVars, flowVars>>

NextFetch == QueryPage \/ TakeItems

SpecFetch == InitFetch /\ [][NextFetch]_vars

RECURSIVE ConcatResults(_, _)
ConcatResults(resps, n) ==
    IF n = 0 THEN <<>> ELSE ConcatResults(resps, n - 1) \o resps[n].body.results

\* A successful page that announces a next one, with its cursor.
ContinuingPage(resp) ==
    /\ resp.status_code = 200
    /\ "has_more" \in DOMAIN resp.body /\ resp.body.has_more
    /\ "next_cursor" \in DOMAIN resp.body /\ resp.body.next_cursor # NoCursor

\* A successful last page.
LastPage(resp) ==
    /\ resp.status_code = 200
    /\ "has_more" \in DOMAIN resp.body /\ ~resp.body.has_more

\* The first query carries no start_cursor, each later one the next_cursor of
\* the response before it.
CursorsChained ==
    /\ Len(queries) = Len(served)
    /\ \A k \in 1..Len(queries) :
           queries[k] = IF k = 1 THEN {}
                        ELSE {<<"start_cursor", served[k - 1].body.next_cursor>>}

AllContinuing(n) == \A k \in 1..n : ContinuingPage(served[k])

\* C8: against N successful pages, has_more true with a next_cursor on all but
\* the last, fetch_notion_pages has returned after exactly N queries, the
\* cursors chained, with the concatenation of all pages' items; before the
\* last page it is still fetching.
C8_PaginationTerminates ==
    /\ AllContinuing(Len(served)) =>
           /\ pc = "fetching"
           /\ CursorsChained
           /\ fetch.all_items = ConcatResults(served, Len(served))
    /\ (served # <<>> /\ AllContinuing(Len(served) - 1) /\ LastPage(Last(served))) =>
           /\ pc = "returned"
           /\ CursorsChained
           /\ fetch.all_items = ConcatResults(served, Len(served))

C8_Witness ==
    /\ variant = "sync"
    /\ pc = "returned"
    /\ Len(served) = MaxPages
    /\ AllContinuing(Len(served) - 1) /\ LastPage(Last(served))
    /\ served[1].body.next_cursor # served[2].body.next_cursor
    /\ Len(fetch.all_items) > 2
    /\ notion_items = fetch.all_items

\* C3: in every fetch_notion_pages, once a query is answered by a non-success
\* response on page k, the function has returned the concatenation of the
\* items of pages 1..k-1 and issues no further query.
C3_PartialResultOnError ==
    (served # <<>> /\ Last(served).status_code # 200) =>
        /\ pc = "returned"
        /\ Len(queries) = Len(served)
        /\ fetch.all_items = ConcatResults(served, Len(served) - 1)

\* The same of the sync script's copy alone.
SyncPartialResultOnError == variant = "sync" => C3_PartialResultOnError

----------------------------------------------------------------------------
(* The Notion database the two flows talk to *)

PageSize == 1       \* rows on one listing page of the modelled database
MaxDbRows == 1      \* most rows the database holds before the first run

Min(a, b) == IF a < b THEN a ELSE b

\* POST /databases/{id}/query: the page of db the payload's cursor names.
ServePage(db, payload) ==
    LET offset == IF payload = {} THEN 0
                  ELSE CHOOSE o \in 0..Len(db) : <<"start_cursor", ToString(o)>> \in payload
        upto == Min(offset + PageSize, Len(db))
    IN [status_code |-> 200,
        body |-> [results |-> SubSeq(db, offset + 1, upto),
                  has_more |-> upto < Len(db),
                  next_cursor |-> IF upto < Len(db) THEN ToString(upto) ELSE NoCursor]]

\* POST /pages: the row the database stores for create_data, cover unset.
StoredRow(db, create_data) ==
    Row(Len(db) + 1, Null,
        [URL |-> [type |-> "url", url |-> create_data.properties.URL.url],
         Title |-> create_data.properties.Title,
         Album |-> create_data.properties.Album])

\* PATCH /pages/{id} with a cover
SetCover(db, page_id, cover) ==
    [k \in 1..Len(db) |-> IF db[k].id = page_id THEN [db[k] EXCEPT !.cover = cover]
                          ELSE db[k]]

----------------------------------------------------------------------------
(* spotify_to_notion_sync.py: the row writer and main *)

\* add_cover_image_to_notion_page, lines 145-160, on a response ok or not:
\* the result, the call issued, the database after it.
add_cover_image_to_notion_page(page_id, cover_url, db, ok) ==
    LET cover == [type |-> "external", external |-> [url |-> cover_url]] IN
    [result |-> ok,
     calls |-> <<[op |-> "PATCH", page_id |-> page_id, cover_url |-> cover_url,
                  ok |-> ok]>>,
     db |-> IF ok THEN SetCover(db, page_id, cover) ELSE db]

\* lines 172-176: the first image's URL; KeyError and IndexError give None
FirstImageUrl(song) ==
    LET track == song.track IN
    IF "album" \notin DOMAIN track THEN None
    ELSE IF "images" \notin DOMAIN track.album THEN None
    ELSE IF Len(track.album.images) = 0 THEN None
    ELSE IF "url" \notin DOMAIN track.album.images[1] THEN None
    ELSE track.album.images[1].url

\* The row's URL is written as the bare track id.
CreateDataBareId(song) ==
    [properties |->
        [Title |-> [title |-> <<[text |-> [content |-> song.name]]>>],
         Album |-> [rich_text |->
                       <<[text |-> [content |-> song.spotify_data.track.album.name]]>>],
         URL |-> [url |-> <<song.id>>]]]

\* lines 179-195
CreateData(song) ==
    [properties |->
        [Title |-> [title |-> <<[text |-> [content |-> song.name]]>>],
         Album |-> [rich_text |->
                       <<[text |-> [content |-> song.spotify_data.track.album.name]]>>],
         URL |-> [url |-> song.spotify_url]]]

\* The PATCH is issued whatever the create's status.
CoverAlways(cover_url, create_ok) == Truthy(cover_url)

\* lines 200 and 205: the cover is added after a successful create, if any
CoverIssued(cover_url, create_ok) == create_ok /\ Truthy(cover_url)

\* create_notion_page_for_song, lines 163-212, on the responses create_ok and
\* cover_ok: the result, the calls issued in order, the database after them.
create_notion_page_for_song(song, db, create_ok, cover_ok) ==
    LET cover_url == FirstImageUrl(song.spotify_data)
        row == StoredRow(db, CreateData(song))
        created == IF create_ok THEN Append(db, row) ELSE db
        post == [op |-> "POST", song |-> song.spotify_data, url |-> song.spotify_url,
                 ok |-> create_ok, page_id |-> IF create_ok THEN row.id ELSE 0]
        patch == add_cover_image_to_notion_page(row.id, cover_url, created, cover_ok)
    IN IF CoverIssued(cover_url, create_ok)
       THEN [result |-> create_ok, calls |-> <<post>> \o patch.calls, db |-> patch.db]
       ELSE [result |-> create_ok, calls |-> <<post>>, db |-> created]

\* The calls cs, marked with the run that issued them.
Tagged(cs, r) == [k \in 1..Len(cs) |-> [run |-> r] @@ cs[k]]

SyncSongs == {Song("abc", MaxImages), Song("xyz", 0)}

SyncRowProps ==
    {[URL |-> [type |-> "url", url |-> CanonicalUrl("abc")], Title |-> GoodTitle],
     [URL |-> [type |-> "url", url |-> CanonicalUrl("xyz")], Title |-> Null],
     [Title |-> GoodTitle]}

InitSync ==
    /\ pc = "fetching"
    /\ run = 1
    /\ liked_songs \in SeqsUpTo(SyncSongs, MaxLiked)
    /\ \E propsSeq \in SeqsUpTo(SyncRowProps, MaxDbRows) : notion_db = RowsOf(propsSeq)
    /\ variant = "sync"
    /\ fetch = FetchStart
    /\ served = <<>>
    /\ queries = <<>>
    /\ notion_items = <<>>
    /\ notion_spotify_urls = {}
    /\ notion_url_to_page = <<>>
    /\ results = EmptyResults
    /\ pos = 1
    /\ calls = <<>>
    /\ success_count = 0
    /\ spotify_token = NoToken
    /\ items_without_cover = <<>>
    /\ outcome = <<>>
    /\ report = NoReport

\* main line 226, one query of fetch_notion_pages: the database answers the
\* page asked for, or a non-success response.
SyncQuery ==
    /\ pc = "fetching"
    /\ \E resp \in {ServePage(notion_db, QueryPayload(fetch)), ErrorResponse} :
        LET r == FetchPage(variant, fetch, resp) IN
        /\ calls' = calls \o Tagged(<<[op |-> "QUERY", ok |-> resp.status_code = 200]>>, run)
        /\ IF r.exc \notin {"", "break"}
           THEN pc' = "raised" /\ UNCHANGED <<fetch, notion_items>>
           ELSE /\ fetch' = r.val
                /\ IF r.exc = "" /\ r.val.has_more
                   THEN pc' = "fetching" /\ UNCHANGED notion_items
                   ELSE pc' = "checking" /\ notion_items' = r.val.all_items
    /\ UNCHANGED <<liked_songs, reconVars, pos, variant, served, queries, notion_db,
                   run, success_count, spotify_token, items_without_cover, outcome,
                   report>>

\* main lines 230-244 and 267-268
Reconcile ==
    /\ pc = "checking"
    /\ LET r == check_songs_by_spotify_url(liked_songs, notion_items) IN
        IF r.exc # ""
        THEN pc' = "raised" /\ UNCHANGED results
        ELSE /\ results' = r.val
             /\ pc' = IF r.val.not_registered # <<>> THEN "creating" ELSE "done"
    /\ pos' = 1
    /\ success_count' = 0
    /\ UNCHANGED <<liked_songs, notion_items, notion_spotify_urls, notion_url_to_page,
                   fetchVars, notion_db, run, calls, spotify_token,
                   items_without_cover, outcome, report>>

\* The counter counts every attempt.
CountedAlways(count, result) == count + 1

\* main lines 248-249
Counted(count, result) == IF result THEN count + 1 ELSE count

\* main lines 245-252, one song
CreatePage ==
    /\ pc = "creating"
    /\ pos <= Len(results.not_registered)
    /\ \E create_ok \in BOOLEAN, cover_ok \in BOOLEAN :
        LET r == create_notion_page_for_song(results.not_registered[pos], notion_db,
                                             create_ok, cover_ok) IN
        /\ calls' = calls \o Tagged(r.calls, run)
        /\ notion_db' = r.db
        /\ success_count' = Counted(success_count, r.result)
        /\ outcome' = Append(outcome, r.result)
    /\ pos' = pos + 1
    /\ UNCHANGED <<pc, liked_songs, notion_items, reconVars, fetchVars, run,
                   spotify_token, items_without_cover, report>>

\* main lines 262-266
Report ==
    /\ pc = "creating"
    /\ pos > Len(results.not_registered)
    /\ report' = [added |-> success_count,
                  failed |-> Len(results.not_registered) - success_count]
    /\ pc' = "done"
    /\ UNCHANGED <<liked_songs, notion_items, reconVars, pos, fetchVars, notion_db,
                   run, calls, success_count, spotify_token, items_without_cover,
                   outcome>>

\* The script is run again, the liked tracks unchanged.
RunAgain ==
    /\ pc = "done"
    /\ run = 1
    /\ run' = 2
    /\ pc' = "fetching"
    /\ fetch' = FetchStart
    /\ notion_items' = <<>>
    /\ results' = EmptyResults
    /\ pos' = 1
    /\ success_count' = 0
    /\ outcome' = <<>>
    /\ report' = NoReport
    /\ UNCHANGED <<liked_songs, notion_spotify_urls, notion_url_to_page, variant,
                   served, queries, notion_db, calls, spotify_token,
                   items_without_cover>>

NextSync == SyncQuery \/ Reconcile \/ CreatePage \/ Report \/ RunAgain

SpecSync == InitSync /\ [][NextSync]_vars

IsCall(c, r, op) == c.run = r /\ c.op = op

PostsOf(r) == SelectSeq(calls, LAMBDA c : IsCall(c, r, "POST"))

NoPostIn(r) == \A k \in 1..Len(calls) : ~IsCall(calls[k], r, "POST")

\* C2 as stated: the second run issues no create call, whatever the responses
\* of the two runs.
C2_SecondRunCreatesNothing == NoPostIn(2)

FirstRunCreatesSucceeded ==
    \A k \in 1..Len(calls) : IsCall(calls[k], 1, "POST") => calls[k].ok

SecondListingComplete ==
    \A k \in 1..Len(calls) : IsCall(calls[k], 2, "QUERY") => calls[k].ok

\* C2, amended: if every create call of the first run succeeded and no listing
\* query of the second run got a non-success response, the second run issues
\* no create call, whatever the other responses.
C2_IdempotentRerun ==
    (FirstRunCreatesSucceeded /\ SecondListingComplete) => NoPostIn(2)

C2_Witness ==
    /\ run = 2
    /\ pc = "done"
    /\ Len(PostsOf(1)) = 2
    /\ FirstRunCreatesSucceeded
    /\ SecondListingComplete
    /\ \E k \in 1..Len(calls) : IsCall(calls[k], 1, "QUERY") /\ ~calls[k].ok
    /\ \E k \in 1..Len(calls) : IsCall(calls[k], 1, "PATCH") /\ ~calls[k].ok
    /\ Len(results.registered) = Len(liked_songs)
    /\ NoPostIn(2)

HasImage(song) == song.track.album.images # <<>>

RowFor(page_id, url) ==
    \E k \in 1..Len(notion_db) :
        /\ notion_db[k].id = page_id
        /\ notion_db[k].properties.URL.url = url

\* C9: a cover update comes right after the successful create of the same
\* run, targets the id that create returned and carries the track's first
\* image; a successful create of a track with an image is followed by its cover
\* update, and no other create is; the k-th result of the run is the success of
\* its k-th create, one create per song.
C9_RowWriter ==
    /\ \A k \in 1..Len(calls) :
        /\ calls[k].op = "PATCH" =>
            /\ k > 1
            /\ IsCall(calls[k - 1], calls[k].run, "POST")
            /\ calls[k - 1].ok
            /\ HasImage(calls[k - 1].song)
            /\ calls[k].page_id = calls[k - 1].page_id
            /\ RowFor(calls[k].page_id, calls[k - 1].url)
            /\ calls[k].cover_url = calls[k - 1].song.track.album.images[1].url
        /\ (calls[k].op = "POST" /\ calls[k].ok /\ HasImage(calls[k].song)) =>
            /\ k < Len(calls)
            /\ IsCall(calls[k + 1], calls[k].run, "PATCH")
    /\ Len(PostsOf(run)) = Len(outcome)
    /\ \A j \in 1..Len(outcome) : outcome[j] = PostsOf(run)[j].ok

C9_Witness ==
    /\ \E k \in 1..Len(calls) : calls[k].op = "PATCH" /\ ~calls[k].ok
    /\ \E k \in 1..Len(calls) : calls[k].op = "POST" /\ ~calls[k].ok /\ HasImage(calls[k].song)
    /\ \E k \in 1..Len(calls) : calls[k].op = "POST" /\ calls[k].ok /\ ~HasImage(calls[k].song)
    /\ \E j \in 1..Len(outcome) : outcome[j]

OkCount(posts) == Cardinality({j \in 1..Len(posts) : posts[j].ok})

\* C10: while and after main adds the unregistered songs, the creates of the
\* run are one per song handled, in list order; at the end every song was
\* handled, added + failed = len(not_registered) and added is the number of
\* successful creates.
C10_BatchNotAborted ==
    /\ pc = "creating" =>
        /\ Len(PostsOf(run)) = pos - 1
        /\ \A j \in 1..(pos - 1) :
               PostsOf(run)[j].url = results.not_registered[j].spotify_url
    /\ (pc = "done" /\ results.not_registered # <<>>) =>
        /\ Len(PostsOf(run)) = Len(results.not_registered)
        /\ \A j \in 1..Len(results.not_registered) :
               PostsOf(run)[j].url = results.not_registered[j].spotify_url
        /\ report.added + report.failed = Len(results.not_registered)
        /\ report.added = OkCount(PostsOf(run))
    /\ (pc = "done" /\ results.not_registered = <<>>) => NoPostIn(run)

C10_Witness ==
    /\ pc = "done"
    /\ Len(results.not_registered) = 2
    /\ ~PostsOf(run)[1].ok
    /\ PostsOf(run)[2].ok
    /\ report = [added |-> 1, failed |-> 1]

----------------------------------------------------------------------------
(* add_cover_image_to_notion.py (and its copy script.py): the cover patcher *)

EmptyDict == <<>>

\* extract_track_id, lines 51-61: the KeyError of a missing key is caught, the
\* TypeError of subscripting a null property is not. A string without "/" is
\* the one-segment sequence.
extract_track_id(item) ==
    LET props == item.properties IN
    IF "URL" \notin DOMAIN props THEN Ret(None)
    ELSE IF props.URL = Null THEN Raise("TypeError")
    ELSE IF "url" \notin DOMAIN props.URL THEN Ret(None)
    ELSE IF ~Truthy(props.URL.url) THEN Ret(None)
    ELSE Ret(<<Last(props.URL.url)>>)

\* get_spotify_token, lines 64-81, on a response ok or not
get_spotify_token(ok) == IF ok THEN "token" ELSE NoToken

\* Bodies of a 200 response of GET /tracks/{id}
TrackBodies ==
    {EmptyDict,
     [album |-> EmptyDict],
     [album |-> [images |-> <<>>]]}
    \cup {[album |-> [images |-> ImagesOf(n)]] : n \in 1..MaxImages}

TrackResponses ==
    {[status_code |-> 200, body |-> b] : b \in TrackBodies}
    \cup {[status_code |-> 401, body |-> EmptyDict]}

\* f"https://api.spotify.com/v1/tracks/{track_id}", line 88
TrackUrl(track_id) ==
    <<"https:", "", "api.spotify.com", "v1", "tracks">>
        \o (IF track_id = None THEN <<"None">> ELSE track_id)

\* line 92: response.json().get("album", {}).get("images", [{}])[0].get("url")
AlbumArtOf(body) ==
    LET album == IF "album" \in DOMAIN body THEN body.album ELSE EmptyDict
        images == IF "images" \in DOMAIN album THEN album.images ELSE <<EmptyDict>>
    IN IF Len(images) = 0 THEN Raise("IndexError")
       ELSE IF "url" \in DOMAIN images[1] THEN Ret(images[1].url) ELSE Ret(None)

\* get_album_art, lines 84-94, on the response resp
get_album_art(track_id, token, resp) ==
    IF resp.status_code = 200 THEN AlbumArtOf(resp.body) ELSE Ret(None)

\* Shapes of the URL property of the rows the patcher meets.
CoverRowProps ==
    {[URL |-> [type |-> "url", url |-> CanonicalUrl("xyz")], Title |-> GoodTitle],
     [URL |-> [type |-> "url", url |-> None], Title |-> GoodTitle],
     [URL |-> [type |-> "url", url |-> EmptyStr], Title |-> GoodTitle],
     [URL |-> [type |-> "rich_text", rich_text |-> <<>>], Title |-> GoodTitle],
     [URL |-> Null, Title |-> GoodTitle],
     [Title |-> GoodTitle]}

MaxCoverRows == 2   \* most rows of the database the patcher runs on

CoverDbs ==
    {[k \in 1..Len(ps) |-> Row(k, cs[k], ps[k])] :
        ps \in SeqsUpTo(CoverRowProps, MaxCoverRows),
        cs \in [1..MaxCoverRows -> {Null, SomeCover}]}

InitCover ==
    /\ pc = "fetching"
    /\ run = 1
    /\ notion_db \in CoverDbs
    /\ variant = "cover"
    /\ fetch = FetchStart
    /\ served = <<>>
    /\ queries = <<>>
    /\ liked_songs = <<>>
    /\ notion_items = <<>>
    /\ notion_spotify_urls = {}
    /\ notion_url_to_page = <<>>
    /\ results = EmptyResults
    /\ pos = 1
    /\ calls = <<>>
    /\ success_count = 0
    /\ spotify_token = NoToken
    /\ items_without_cover = <<>>
    /\ outcome = <<>>
    /\ report = NoReport

\* main line 99, one query of fetch_notion_pages; an exception ends the run
\* (lines 131-133).
CoverQuery ==
    /\ pc = "fetching"
    /\ \E resp \in {ServePage(notion_db, QueryPayload(fetch)), ErrorResponse} :
        LET r == FetchPage(variant, fetch, resp) IN
        /\ calls' = calls \o Tagged(<<[op |-> "QUERY", ok |-> resp.status_code = 200]>>, run)
        /\ IF r.exc \notin {"", "break"}
           THEN pc' = "raised" /\ UNCHANGED <<fetch, notion_items>>
           ELSE /\ fetch' = r.val
                /\ IF r.exc = "" /\ r.val.has_more
                   THEN pc' = "fetching" /\ UNCHANGED notion_items
                   ELSE pc' = "token" /\ notion_items' = r.val.all_items
    /\ UNCHANGED <<liked_songs, reconVars, pos, variant, served, queries, notion_db,
                   run, success_count, spotify_token, items_without_cover, outcome,
                   report>>

\* item.get("cover") is falsy, line 102
WithoutCover(item) == "cover" \notin DOMAIN item \/ item.cover = Null

\* main lines 102-104: the rows without cover, then the token request, whose
\* result is not tested.
GetToken ==
    /\ pc = "token"
    /\ items_without_cover' = SelectSeq(notion_items, WithoutCover)
    /\ \E ok \in BOOLEAN :
        /\ spotify_token' = get_spotify_token(ok)
        /\ calls' = calls \o Tagged(<<[op |-> "TOKEN", ok |-> ok]>>, run)
    /\ pc' = "patching"
    /\ pos' = 1
    /\ UNCHANGED <<liked_songs, notion_items, reconVars, fetchVars, notion_db, run,
                   success_count, outcome, report>>

\* The track lookup's answer: Spotify rejects the bearer "None" and knows no
\* track "None".
LookupResponses(token, track_id) ==
    IF token = NoToken \/ track_id = None
    THEN {r \in TrackResponses : r.status_code # 200}
    ELSE TrackResponses

\* main lines 106-129, one row: the track id, the lookup (issued whatever the
\* id and the token), then the update or the message of line 129.
PatchRow ==
    /\ pc = "patching"
    /\ pos <= Len(items_without_cover)
    /\ LET item == items_without_cover[pos]
           tid == extract_track_id(item)
       IN IF tid.exc # ""
          THEN pc' = "raised" /\ UNCHANGED <<calls, notion_db, outcome, pos>>
          ELSE \E resp \in LookupResponses(spotify_token, tid.val), update_ok \in BOOLEAN :
               LET art == get_album_art(tid.val, spotify_token, resp)
                   get == [op |-> "GET", item |-> pos, url |-> TrackUrl(tid.val),
                           track_id |-> tid.val, resp |-> resp]
                   patch == add_cover_image_to_notion_page(item.id, art.val,
                                                           notion_db, update_ok)
               IN IF art.exc # ""
                  THEN /\ pc' = "raised"
                       /\ calls' = calls \o Tagged(<<get>>, run)
                       /\ UNCHANGED <<notion_db, outcome, pos>>
                  ELSE IF Truthy(art.val)
                  THEN /\ calls' = calls \o Tagged(<<get>> \o
                                      <<[item |-> pos] @@ patch.calls[1]>>, run)
                       /\ notion_db' = patch.db
                       /\ outcome' = Append(outcome, IF update_ok THEN "updated"
                                                     ELSE "update failed")
                       /\ pos' = pos + 1
                       /\ pc' = pc
                  ELSE /\ calls' = calls \o Tagged(<<get>>, run)
                       /\ outcome' = Append(outcome, "skipped")
                       /\ pos' = pos + 1
                       /\ UNCHANGED <<pc, notion_db>>
    /\ UNCHANGED <<liked_songs, notion_items, reconVars, fetchVars, run,
                   success_count, spotify_token, items_without_cover, report>>

\* the loop of line 106 is exhausted: main returns
CoverDone ==
    /\ pc = "patching"
    /\ pos > Len(items_without_cover)
    /\ pc' = "done"
    /\ UNCHANGED <<liked_songs, notion_items, reconVars, pos, fetchVars, flowVars>>

NextCover == CoverQuery \/ GetToken \/ PatchRow \/ CoverDone

SpecCover == InitCover /\ [][NextCover]_vars

\* The lookup of a row succeeded and returned no album, or an album whose
\* images list is empty.
NoAlbumArt(resp) ==
    /\ resp.status_code = 200
    /\ \/ "album" \notin DOMAIN resp.body
       \/ ("images" \in DOMAIN resp.body.album /\ resp.body.album.images = <<>>)

NoPatchFor(j) == \A k \in 1..Len(calls) : ~(calls[k].op = "PATCH" /\ calls[k].item = j)

\* C4: a row with a track id whose lookup succeeded with no album or an empty
\* images list gets no cover update, is reported as skipped, and the loop
\* goes on.
C4_NoArtSkipped ==
    \A k \in 1..Len(calls) :
        (calls[k].op = "GET" /\ NoAlbumArt(calls[k].resp)) =>
            /\ pc # "raised"
            /\ NoPatchFor(calls[k].item)
            /\ Len(outcome) >= calls[k].item
            /\ outcome[calls[k].item] = "skipped"

\* What holds when the lookup's body has no album at all.
NoAlbumSkipped ==
    \A k \in 1..Len(calls) :
        (calls[k].op = "GET" /\ calls[k].resp.status_code = 200
            /\ "album" \notin DOMAIN calls[k].resp.body) =>
            /\ NoPatchFor(calls[k].item)
            /\ Len(outcome) >= calls[k].item
            /\ outcome[calls[k].item] = "skipped"

\* The row's URL property is absent, null, wrong-shaped or empty.
NoIdentifier(item) ==
    LET props == item.properties IN
    \/ "URL" \notin DOMAIN props
    \/ props.URL = Null
    \/ "url" \notin DOMAIN props.URL
    \/ ~Truthy(props.URL.url)

\* The rows the loop has reached: those handled, and the one that raised.
Reached == 1..(IF pc = "raised" THEN pos ELSE pos - 1)

\* C5: for a row without identifier extract_track_id returns None without
\* raising, no track lookup is issued for the row, and the loop goes on.
C5_NoIdentifierSkipped ==
    (pc \in {"patching", "done", "raised"} /\ items_without_cover # <<>>) =>
        \A j \in Reached :
            NoIdentifier(items_without_cover[j]) =>
                /\ extract_track_id(items_without_cover[j]) = Ret(None)
                /\ \A k \in 1..Len(calls) : ~(calls[k].op = "GET" /\ calls[k].item = j)
                /\ ~(pc = "raised" /\ pos = j)

TokenFailed == \E k \in 1..Len(calls) : calls[k].op = "TOKEN" /\ ~calls[k].ok

\* C6: after a non-success token response the run stops: no track lookup and
\* no cover update is issued.
C6_TokenFailureFatal ==
    TokenFailed => \A k \in 1..Len(calls) : calls[k].op \notin {"GET", "PATCH"}

====
